---- MODULE Spec2Model ----
(***************************************************************************)
(* File-Chunker: the grid image partitioner (chunkers/image_chunker.py),   *)
(* the chunk orchestrator (api/files/serializers.py, ChunkSerializer) and  *)
(* the per-user engagement store (database.py, UserDatabase).              *)
(*                                                                         *)
(* Four specifications share the variables:                                *)
(*   SpecPlan   the geometry of split_image over a wide range of inputs;   *)
(*   Spec       split requests end to end: plan, parallel crops, uploads,  *)
(*              chunk records, working directory;                          *)
(*   SpecStore  concurrent UserDatabase coroutines on one collection;      *)
(*   SpecSerial the same, keeping the arguments of every call.             *)
(***************************************************************************)
EXTENDS Integers, Sequences, FiniteSets, Bags, TLC

(* ------------------------------ bounds --------------------------------- *)
PlanMaxW == 4
PlanMaxH == 3
PlanMaxN == 9
MaxW == 2
MaxH == 2
MaxN == 4
MaxRequests == 2
NumProcs == 2
MaxCalls == 5
MaxDay == 2
MaxUsers == 3

FileIds == {1}                     \* rows of the UploadedFile table
\* uploaded_file_id of a request: 0 is an absent (falsy) id, 2 matches no row
RequestIds == FileIds \cup {0, 2}

VARIABLES
    \* ---- files app / chunker ----
    dims,           \* UploadedFile id -> <<width, height>> as ffmpeg probes it
    chunks,         \* the Chunk table: sequence of saved rows
    folders,        \* ids of the files whose "<file_name>_chunks" directory exists
    pc,             \* position of the split request in ChunkSerializer.create
    uploaded_file,  \* validated_data['uploaded_file'] of the running request
    num_chunks,     \* the num_chunks argument of split_image
    split_args,     \* the list split_image builds for pool.map
    results,        \* per task: "pending", "ok" or "error"
    order,          \* task indices in the order the workers completed them
    chunk_files,    \* the list split_image returned
    i,              \* the enumerate() index of the upload loop, 1-based
    err,            \* the exception that ended the request, "none" if none
    nreq,           \* number of requests answered so far
    \* ---- engagement store ----
    users,          \* the users collection: sequence of documents, natural order
    unique_index,   \* TRUE iff the collection has the unique index on user_id
    day,            \* the calendar day of datetime.now(timezone.utc)
    cpc,            \* per coroutine: position in its UserDatabase method
    local,          \* per coroutine: the locals it holds across an await
    calls,          \* bag of the calls invoked so far
    log_args,       \* TRUE iff calls keeps the arguments of each call
    store_ok,       \* FALSE while the record store raises on every access
    ret,            \* what the call that returned last handed back
    applied         \* number of update_process_stats updates the store applied

splitVars == <<dims, chunks, folders, pc, uploaded_file, num_chunks, split_args,
               results, order, chunk_files, i, err, nreq>>
storeVars == <<users, unique_index, day, cpc, local, calls, log_args, store_ok,
               ret, applied>>
vars == <<splitVars, storeVars>>

Min(a, b) == IF a <= b THEN a ELSE b
Max(a, b) == IF a >= b THEN a ELSE b

(* ----------------- chunkers/image_chunker.py: geometry ------------------ *)

\* int(num_chunks ** 0.5): the float square root truncated, for num_chunks >= 0.
RECURSIVE SqrtFrom(_, _)
SqrtFrom(n, k) == IF (k + 1) * (k + 1) > n THEN k ELSE SqrtFrom(n, k + 1)

num_chunks_horizontal(n) == SqrtFrom(n, 0)

num_chunks_vertical(n) == n \div num_chunks_horizontal(n)

chunk_width_floor(width, n) == width \div num_chunks_horizontal(n)

chunk_width(width, n) ==
    (width + num_chunks_horizontal(n) - 1) \div num_chunks_horizontal(n)

chunk_height(height, n) ==
    (height + num_chunks_vertical(n) - 1) \div num_chunks_vertical(n)

\* One tuple of split_args; output_file is identified by the number in its name.
SplitArg(width, height, n, y, x) ==
    LET left == x * chunk_width(width, n)
        top  == y * chunk_height(height, n)
    IN  [output_file |-> y * num_chunks_horizontal(n) + x + 1,
         left   |-> left,
         top    |-> top,
         width  |-> Min(chunk_width(width, n), width - left),
         height |-> Min(chunk_height(height, n), height - top)]

\* The nested loops "for y in range(vertical): for x in range(horizontal)".
RECURSIVE InnerLoop(_, _, _, _, _)
InnerLoop(width, height, n, y, x) ==
    IF x >= num_chunks_horizontal(n) THEN <<>>
    ELSE <<SplitArg(width, height, n, y, x)>> \o InnerLoop(width, height, n, y, x + 1)

RECURSIVE OuterLoop(_, _, _, _)
OuterLoop(width, height, n, y) ==
    IF y >= num_chunks_vertical(n) THEN <<>>
    ELSE InnerLoop(width, height, n, y, 0) \o OuterLoop(width, height, n, y + 1)

BuildSplitArgs(width, height, n) == OuterLoop(width, height, n, 0)

(* ----------------- chunkers/image_chunker.py: execution ----------------- *)

\* The rectangle that the task with this output_file crops into it.
CropOf(args, name) ==
    LET a == CHOOSE b \in {args[k] : k \in 1..Len(args)} : b.output_file = name
    IN  <<a.left, a.top, a.width, a.height>>

\* The results in the order the workers finished (imap_unordered).
PoolMapUnordered(args, ord) == [k \in 1..Len(ord) |-> args[ord[k]].output_file]

\* pool.map(split_chunk, split_args): one result per argument, in argument order.
PoolMap(args, ord) == [k \in 1..Len(args) |-> args[k].output_file]

NoRequest ==
    /\ uploaded_file = 0 /\ num_chunks = 0 /\ split_args = <<>>
    /\ results = <<>> /\ order = <<>> /\ chunk_files = <<>> /\ i = 0
    /\ err = "none"

\* What a call handed back: its return value (<<>> for None and for []), the
\* exception that escaped it, and whether one of its store accesses failed.
Returned(op, value, exc, store_failed) ==
    [op |-> op, value |-> value, exc |-> exc, store_failed |-> store_failed]

NoReturn == Returned("", <<>>, "none", FALSE)

InitStoreIdle ==
    /\ users = <<>> /\ unique_index = FALSE /\ day = 0
    /\ cpc = <<>> /\ local = <<>> /\ calls = EmptyBag /\ log_args = FALSE
    /\ store_ok = TRUE /\ ret = NoReturn /\ applied = 0

InitFiles(ids, ws, hs) ==
    /\ dims \in [ids -> ws \X hs]
    /\ chunks = <<>> /\ folders = {} /\ pc = "idle" /\ nreq = 0
    /\ NoRequest

Init == InitFiles(FileIds, 1..MaxW, 1..MaxH) /\ InitStoreIdle

InitPlan == InitFiles({1}, 1..PlanMaxW, 1..PlanMaxH) /\ InitStoreIdle

\* ChunkSerializer.create up to the call of split_image.
Lookup(id, n) ==
    IF id = 0 \/ id \notin DOMAIN dims
    THEN /\ pc' = "failed" /\ err' = "ValidationError"
         /\ UNCHANGED <<uploaded_file, num_chunks>>
    ELSE /\ pc' = "split_image" /\ uploaded_file' = id /\ num_chunks' = n
         /\ UNCHANGED err

Create ==
    /\ pc = "idle" /\ nreq < MaxRequests
    /\ \E id \in RequestIds, n \in -1..MaxN : Lookup(id, n)
    /\ UNCHANGED <<dims, chunks, folders, split_args, results, order,
                   chunk_files, i, nreq, storeVars>>

\* The same step with the wider range of num_chunks of SpecPlan.
CreatePlan ==
    /\ pc = "idle" /\ nreq < MaxRequests
    /\ \E id \in RequestIds, n \in -1..PlanMaxN : Lookup(id, n)
    /\ UNCHANGED <<dims, chunks, folders, split_args, results, order,
                   chunk_files, i, nreq, storeVars>>

\* split_image up to the pool: probe, grid, mkdir, split_args.
Plan ==
    /\ pc = "split_image"
    /\ IF num_chunks < 0
       THEN /\ pc' = "failed" /\ err' = "TypeError"
            /\ UNCHANGED <<folders, split_args, results, order>>
       ELSE IF num_chunks = 0
       THEN /\ pc' = "failed" /\ err' = "ZeroDivisionError"
            /\ UNCHANGED <<folders, split_args, results, order>>
       ELSE /\ split_args' = BuildSplitArgs(dims[uploaded_file][1],
                                            dims[uploaded_file][2], num_chunks)
            /\ folders' = folders \cup {uploaded_file}
            /\ results' = [k \in 1..Len(split_args') |-> "pending"]
            /\ order' = <<>>
            /\ pc' = "pool"
            /\ UNCHANGED err
    /\ UNCHANGED <<dims, chunks, uploaded_file, num_chunks, chunk_files, i,
                   nreq, storeVars>>

\* split_chunk in a worker: ffmpeg crops one cell, or fails.
SplitChunk ==
    /\ pc = "pool"
    /\ \E k \in 1..Len(split_args) :
         /\ results[k] = "pending"
         /\ \E out \in (IF split_args[k].width >= 1 /\ split_args[k].height >= 1
                         THEN {"ok", "error"} ELSE {"error"}) :
              results' = [results EXCEPT ![k] = out]
         /\ order' = Append(order, k)
    /\ UNCHANGED <<dims, chunks, folders, pc, uploaded_file, num_chunks,
                   split_args, chunk_files, i, err, nreq, storeVars>>

\* A pool that reports the failure of its first task only.
PoolMapRaisesFirst(res) == res[1] = "error"

\* pool.map re-raises the exception of a task that failed.
PoolMapRaises(res) == \E k \in 1..Len(res) : res[k] = "error"

\* pool.map returns once every task is done, or re-raises a task's exception.
PoolJoin ==
    /\ pc = "pool"
    /\ \A k \in 1..Len(split_args) : results[k] # "pending"
    /\ IF PoolMapRaises(results)
       THEN /\ pc' = "failed" /\ err' = "ffmpeg.Error"
            /\ UNCHANGED <<chunk_files, i>>
       ELSE /\ chunk_files' = PoolMap(split_args, order)
            /\ i' = 1
            /\ pc' = "upload"
            /\ UNCHANGED err
    /\ UNCHANGED <<dims, chunks, folders, uploaded_file, num_chunks, split_args,
                   results, order, nreq, storeVars>>

\* One iteration of "for i, j in enumerate(chunked_files)".
UploadAndSave ==
    /\ pc = "upload" /\ i <= Len(chunk_files)
    /\ \E out \in {"ok", "upload_fails", "save_fails"} :
         IF out = "ok"
         THEN /\ chunks' = Append(chunks,
                     [uploaded_file |-> uploaded_file,
                      chunk_file |-> [output_file |-> chunk_files[i],
                                      crop |-> CropOf(split_args, chunk_files[i])],
                      position |-> i,
                      batch |-> nreq + 1])
              /\ i' = i + 1
              /\ UNCHANGED <<pc, err>>
         ELSE /\ pc' = "failed"
              /\ err' = IF out = "upload_fails" THEN "cloudinary.Error"
                                                 ELSE "DatabaseError"
              /\ UNCHANGED <<chunks, i>>
    /\ UNCHANGED <<dims, folders, uploaded_file, num_chunks, split_args,
                   results, order, chunk_files, nreq, storeVars>>

\* After the loop: shutil.rmtree of the chunk folder, return chunk.
Cleanup ==
    /\ pc = "upload" /\ i > Len(chunk_files)
    /\ folders' = folders \ {uploaded_file}
    /\ pc' = "done"
    /\ UNCHANGED <<dims, chunks, uploaded_file, num_chunks, split_args, results,
                   order, chunk_files, i, err, nreq, storeVars>>

\* The request is answered, with the chunk or with the exception.
Respond ==
    /\ pc \in {"done", "failed"}
    /\ pc' = "idle" /\ nreq' = nreq + 1
    /\ uploaded_file' = 0 /\ num_chunks' = 0 /\ split_args' = <<>>
    /\ results' = <<>> /\ order' = <<>> /\ chunk_files' = <<>> /\ i' = 0
    /\ err' = "none"
    /\ UNCHANGED <<dims, chunks, folders, storeVars>>

Next == Create \/ Plan \/ SplitChunk \/ PoolJoin \/ UploadAndSave \/ Cleanup \/ Respond

Spec == Init /\ [][Next]_vars

NextPlan == CreatePlan \/ Plan

SpecPlan == InitPlan /\ [][NextPlan]_vars

(* ------------------------ database.py: documents ------------------------ *)

UserIds == {1}
FileSizes == {10, 50, 200}
FileTypes == {1}                \* media types, numbered
ProcessTimes == {5, 20}        \* process_time in tenths of a second
ChunkCounts == {4}
Hours == {9, 23}               \* now.hour
Procs == 1..NumProcs

\* float('inf'), above every size and time of the model.
Inf == 2147483647

\* Dates are day numbers: strftime('%Y-%m-%d') maps distinct days to distinct
\* strings and the code only compares the strings for equality.
DefaultData(user_id, today) ==
    [user_id |-> user_id,
     created_at |-> today,
     files_uploaded |-> 0,
     total_size |-> 0,
     chunks_sent |-> 0,
     file_type_counts |-> <<>>,
     largest_file_size |-> 0,
     smallest_file_size |-> Inf,
     successful_processes |-> 0,
     total_attempts |-> 0,
     fastest_process_time |-> Inf,
     slowest_process_time |-> 0,
     activity_hours |-> {},
     last_active_date |-> today,
     current_streak |-> 0,
     longest_streak |-> 0,
     achievements |-> {}]

\* find_one({"user_id": user_id}): index of the first match, 0 for None.
FindOne(coll, user_id) ==
    IF \E k \in 1..Len(coll) : coll[k].user_id = user_id
    THEN CHOOSE k \in 1..Len(coll) :
            /\ coll[k].user_id = user_id
            /\ \A j \in 1..(k - 1) : coll[j].user_id # user_id
    ELSE 0

\* insert_one: with the unique index a second document of the same user_id is
\* a DuplicateKeyError, which _safe_db_operation logs and swallows.
InsertOne(coll, doc, uniq) ==
    IF uniq /\ FindOne(coll, doc.user_id) # 0 THEN coll ELSE Append(coll, doc)

\* The document find_one returns, when there is one.
Found(coll, user_id) == coll[FindOne(coll, user_id)]

\* update_one({"user_id": user_id}, ...): the first match becomes updated, the
\* result of the update document on it; without a match nothing changes.
UpdateOne(coll, user_id, updated) ==
    LET k == FindOne(coll, user_id)
    IN  IF k = 0 THEN coll ELSE [coll EXCEPT ![k] = updated]

\* "$inc": {"file_type_counts.<file_type>": 1}
IncType(counts, file_type) ==
    IF file_type \in DOMAIN counts
    THEN [counts EXCEPT ![file_type] = @ + 1]
    ELSE [t \in DOMAIN counts \cup {file_type} |->
             IF t = file_type THEN 1 ELSE counts[t]]

\* The same update with "$set" in place of "$min" for smallest_file_size.
FileStatsUpdateSet(doc, file_size, file_type) ==
    [doc EXCEPT !.files_uploaded = @ + 1,
                !.total_size = @ + file_size,
                !.file_type_counts = IncType(@, file_type),
                !.largest_file_size = Max(@, file_size),
                !.smallest_file_size = file_size]

\* The update document of update_file_stats applied to one document.
FileStatsUpdate(doc, file_size, file_type) ==
    [doc EXCEPT !.files_uploaded = @ + 1,
                !.total_size = @ + file_size,
                !.file_type_counts = IncType(@, file_type),
                !.largest_file_size = Max(@, file_size),
                !.smallest_file_size = Min(@, file_size)]

\* The same update counting an attempt only when it succeeded.
ProcessStatsUpdateSuccesses(doc, process_time, chunks_sent, success) ==
    [doc EXCEPT !.successful_processes = @ + 1,
                !.total_attempts = @ + (IF success THEN 1 ELSE 0),
                !.chunks_sent = @ + chunks_sent,
                !.fastest_process_time = Min(@, process_time),
                !.slowest_process_time = Max(@, process_time)]

\* The update document of update_process_stats applied to one document.
ProcessStatsUpdate(doc, process_time, chunks_sent, success) ==
    [doc EXCEPT !.successful_processes = @ + (IF success THEN 1 ELSE 0),
                !.total_attempts = @ + 1,
                !.chunks_sent = @ + chunks_sent,
                !.fastest_process_time = Min(@, process_time),
                !.slowest_process_time = Max(@, process_time)]

\* A streak that restarts at 1 on every new day.
NewStreakReset(user, today) ==
    IF user.last_active_date # today THEN 1 ELSE user.current_streak

\* The streak update_activity computes from the document it has read.
NewStreak(user, today) ==
    IF user.last_active_date = today - 1 THEN user.current_streak + 1
    ELSE IF user.last_active_date # today THEN 1
    ELSE user.current_streak

\* The same update with "$set" in place of "$max" for longest_streak.
ActivityUpdateSet(doc, today, current_streak, hour) ==
    [doc EXCEPT !.last_active_date = today,
                !.current_streak = current_streak,
                !.longest_streak = current_streak,
                !.activity_hours = @ \cup {hour}]

\* The update document of update_activity applied to one document.
ActivityUpdate(doc, today, current_streak, hour) ==
    [doc EXCEPT !.last_active_date = today,
                !.current_streak = current_streak,
                !.longest_streak = Max(@, current_streak),
                !.activity_hours = @ \cup {hour}]

\* The achievements dict of check_and_add_achievements, in its order.
AchievementTable(user) ==
    << <<user.files_uploaded >= 1, "First File">>,
       <<user.files_uploaded >= 100, "File Master">>,
       <<user.total_size >= 1000000000, "Data Heavyweight">>,
       <<user.fastest_process_time < 10, "Speed Demon">>,
       <<user.current_streak >= 7, "Streak Warrior">>,
       <<Cardinality(DOMAIN user.file_type_counts) >= 5, "Type Collector">> >>

\* new_achievements: the names whose condition holds and that are not unlocked.
RECURSIVE NewFrom(_, _, _)
NewFrom(table, have, k) ==
    IF k > Len(table) THEN <<>>
    ELSE IF table[k][1] /\ table[k][2] \notin have
         THEN <<table[k][2]>> \o NewFrom(table, have, k + 1)
         ELSE NewFrom(table, have, k + 1)

NewAchievements(user) == NewFrom(AchievementTable(user), user.achievements, 1)

Range(q) == {q[k] : k \in 1..Len(q)}

\* An update that stores the list as it was read.
AchievementsUpdateOld(doc, current_achievements, new_achievements) ==
    [doc EXCEPT !.achievements = @]

\* "$set": {"achievements": list(current_achievements)}
AchievementsUpdate(doc, current_achievements, new_achievements) ==
    [doc EXCEPT !.achievements = current_achievements]

(* ----------------------- database.py: coroutines ------------------------ *)

\* Locals a coroutine holds across an await; total_users -1 stands for None.
NoLocal == [user_id |-> 0, today |-> 0, hour |-> 0, current_streak |-> 0,
            current_achievements |-> {}, new_achievements |-> <<>>,
            found |-> FALSE, total_size |-> 0, total_users |-> 0,
            store_failed |-> FALSE]

\* One invocation with its arguments; today and hour are the call's now.
Call(op, user_id, today, hour, a, b, c) ==
    [op |-> op, user_id |-> user_id, today |-> today, hour |-> hour,
     a |-> a, b |-> b, c |-> c]

\* A call enters the history, with its arguments or as its name only.
Invoke(call) ==
    /\ BagCardinality(calls) < MaxCalls
    /\ calls' = calls (+) SetToBag({IF log_args THEN call
                                    ELSE Call(call.op, call.user_id, 0, 0, 0, 0, FALSE)})
    /\ UNCHANGED log_args

\* UserDatabase.__init__ calls the coroutine function _ensure_indexes without
\* awaiting it, so create_index never runs and the collection has no unique
\* index on user_id.
InitUsers(log) ==
    /\ InitFiles({1}, {1}, {1})
    /\ users = <<>>
    /\ unique_index = FALSE
    /\ day = 0
    /\ cpc = [p \in Procs |-> "idle"]
    /\ local = [p \in Procs |-> NoLocal]
    /\ calls = EmptyBag
    /\ log_args = log
    /\ store_ok = TRUE
    /\ ret = NoReturn
    /\ applied = 0

InitStore == InitUsers(FALSE)

InitSerial == InitUsers(TRUE)

\* create_user({"user_id": user_id})
CreateUser(p) ==
    /\ cpc[p] = "idle"
    /\ \E user_id \in UserIds :
         /\ Invoke(Call("create_user", user_id, day, 0, 0, 0, FALSE))
         /\ users' = IF store_ok
                     THEN InsertOne(users, DefaultData(user_id, day), unique_index)
                     ELSE users
    /\ ret' = Returned("create_user", <<>>, "none", ~store_ok)
    /\ UNCHANGED <<unique_index, day, cpc, local, store_ok, applied, splitVars>>

\* update_file_stats(user_id, file_size, file_type)
UpdateFileStats(p) ==
    /\ cpc[p] = "idle"
    /\ \E user_id \in UserIds, file_size \in FileSizes, file_type \in FileTypes :
         /\ Invoke(Call("update_file_stats", user_id, 0, 0, file_size, file_type, FALSE))
         /\ users' = IF store_ok
                     THEN UpdateOne(users, user_id,
                              FileStatsUpdate(Found(users, user_id), file_size, file_type))
                     ELSE users
    /\ ret' = Returned("update_file_stats", <<>>, "none", ~store_ok)
    /\ UNCHANGED <<unique_index, day, cpc, local, store_ok, applied, splitVars>>

\* update_process_stats(user_id, process_time, chunks_sent, success)
UpdateProcessStats(p) ==
    /\ cpc[p] = "idle"
    /\ \E user_id \in UserIds, process_time \in ProcessTimes,
          chunks_sent \in ChunkCounts, success \in BOOLEAN :
         /\ Invoke(Call("update_process_stats", user_id, 0, 0,
                        process_time, chunks_sent, success))
         /\ users' = IF store_ok
                     THEN UpdateOne(users, user_id,
                              ProcessStatsUpdate(Found(users, user_id), process_time,
                                                 chunks_sent, success))
                     ELSE users
         /\ applied' = IF store_ok /\ FindOne(users, user_id) # 0
                       THEN applied + 1 ELSE applied
    /\ ret' = Returned("update_process_stats", <<>>, "none", ~store_ok)
    /\ UNCHANGED <<unique_index, day, cpc, local, store_ok, splitVars>>

\* update_activity up to the end of "await self.get_user(user_id)".
UpdateActivityRead(p) ==
    /\ cpc[p] = "idle"
    /\ \E user_id \in UserIds, hour \in Hours :
         /\ Invoke(Call("update_activity", user_id, day, hour, 0, 0, FALSE))
         /\ LET k == IF store_ok THEN FindOne(users, user_id) ELSE 0
            IN  IF k = 0
                THEN /\ ret' = Returned("update_activity", <<>>, "none", ~store_ok)
                     /\ UNCHANGED <<cpc, local>>
                ELSE /\ cpc' = [cpc EXCEPT ![p] = "update_activity"]
                     /\ local' = [local EXCEPT ![p] =
                            [NoLocal EXCEPT !.today = day, !.hour = hour,
                               !.current_streak = NewStreak(users[k], day)]]
                     /\ UNCHANGED ret
    /\ UNCHANGED <<users, unique_index, day, store_ok, applied, splitVars>>

\* update_activity: the update_one after the read.
UpdateActivityWrite(p) ==
    /\ cpc[p] = "update_activity"
    /\ \E user_id \in UserIds :
         users' = IF store_ok
                  THEN UpdateOne(users, user_id,
                           ActivityUpdate(Found(users, user_id), local[p].today,
                                          local[p].current_streak, local[p].hour))
                  ELSE users
    /\ cpc' = [cpc EXCEPT ![p] = "idle"]
    /\ local' = [local EXCEPT ![p] = NoLocal]
    /\ ret' = Returned("update_activity", <<>>, "none", ~store_ok)
    /\ UNCHANGED <<unique_index, day, calls, log_args, store_ok, applied, splitVars>>

\* check_and_add_achievements up to the decision "if new_achievements".
CheckAchievementsRead(p) ==
    /\ cpc[p] = "idle"
    /\ \E user_id \in UserIds :
         /\ Invoke(Call("check_and_add_achievements", user_id, 0, 0, 0, 0, FALSE))
         /\ LET k == IF store_ok THEN FindOne(users, user_id) ELSE 0
            IN  IF k = 0 \/ (k # 0 /\ NewAchievements(users[k]) = <<>>)
                THEN /\ ret' = Returned("check_and_add_achievements", <<>>, "none", ~store_ok)
                     /\ UNCHANGED <<cpc, local>>
                ELSE /\ cpc' = [cpc EXCEPT ![p] = "check_and_add_achievements"]
                     /\ local' = [local EXCEPT ![p] =
                            [NoLocal EXCEPT
                               !.new_achievements = NewAchievements(users[k]),
                               !.current_achievements =
                                   users[k].achievements
                                       \cup Range(NewAchievements(users[k]))]]
                     /\ UNCHANGED ret
    /\ UNCHANGED <<users, unique_index, day, store_ok, applied, splitVars>>

\* check_and_add_achievements: the update_one that stores the list, and the
\* return of new_achievements.
CheckAchievementsWrite(p) ==
    /\ cpc[p] = "check_and_add_achievements"
    /\ \E user_id \in UserIds :
         users' = IF store_ok
                  THEN UpdateOne(users, user_id,
                           AchievementsUpdate(Found(users, user_id),
                                              local[p].current_achievements,
                                              local[p].new_achievements))
                  ELSE users
    /\ cpc' = [cpc EXCEPT ![p] = "idle"]
    /\ local' = [local EXCEPT ![p] = NoLocal]
    /\ ret' = Returned("check_and_add_achievements", local[p].new_achievements,
                           "none", ~store_ok)
    /\ UNCHANGED <<unique_index, day, calls, log_args, store_ok, applied, splitVars>>

\* Midnight UTC passes.
Tick ==
    /\ day < MaxDay
    /\ day' = day + 1
    /\ UNCHANGED <<users, unique_index, cpc, local, calls, log_args, store_ok,
                   ret, applied, splitVars>>

NextStore ==
    \/ \E p \in Procs : CreateUser(p)
    \/ \E p \in Procs : UpdateFileStats(p)
    \/ \E p \in Procs : UpdateProcessStats(p)
    \/ \E p \in Procs : UpdateActivityRead(p)
    \/ \E p \in Procs : UpdateActivityWrite(p)
    \/ \E p \in Procs : CheckAchievementsRead(p)
    \/ \E p \in Procs : CheckAchievementsWrite(p)
    \/ Tick

SpecStore == InitStore /\ [][NextStore]_vars

\* The same coroutines with the full history of calls.
SpecSerial == InitSerial /\ [][NextStore]_vars

\* The ids get_user_rank is asked about, and the total sizes of the records
\* it ranks.
RankIds == 1..MaxUsers
RankSizes == {300, 500}

\* count_documents with "$gte" in place of "$gt".
CountGreaterOrEqual(coll, total_size) ==
    Cardinality({k \in 1..Len(coll) : coll[k].total_size >= total_size})

\* count_documents({"total_size": {"$gt": total_size}})
CountGreater(coll, total_size) ==
    Cardinality({k \in 1..Len(coll) : coll[k].total_size > total_size})

\* get_user_rank up to the end of "await self.get_user(user_id)".
GetUserRankUser(p) ==
    /\ cpc[p] = "idle"
    /\ \E user_id \in RankIds :
         /\ Invoke(Call("get_user_rank", user_id, 0, 0, 0, 0, FALSE))
         /\ LET k == IF store_ok THEN FindOne(users, user_id) ELSE 0
            IN  local' = [local EXCEPT ![p] =
                    [NoLocal EXCEPT !.user_id = user_id,
                                    !.found = (k # 0),
                                    !.total_size = IF k # 0 THEN users[k].total_size ELSE 0,
                                    !.store_failed = ~store_ok]]
    /\ cpc' = [cpc EXCEPT ![p] = "get_user_rank_total"]
    /\ UNCHANGED <<users, unique_index, day, store_ok, ret, applied, splitVars>>

\* get_user_rank: count_documents({}), then the query of the second count is
\* built: user.get raises AttributeError when user is None.
GetUserRankTotal(p) ==
    /\ cpc[p] = "get_user_rank_total"
    /\ IF local[p].found
       THEN /\ cpc' = [cpc EXCEPT ![p] = "get_user_rank_rank"]
            /\ local' = [local EXCEPT ![p].total_users =
                                          IF store_ok THEN Len(users) ELSE -1,
                                      ![p].store_failed = @ \/ ~store_ok]
            /\ UNCHANGED ret
       ELSE /\ cpc' = [cpc EXCEPT ![p] = "idle"]
            /\ local' = [local EXCEPT ![p] = NoLocal]
            /\ ret' = Returned("get_user_rank", <<>>, "AttributeError",
                               local[p].store_failed \/ ~store_ok)
    /\ UNCHANGED <<users, unique_index, day, calls, log_args, store_ok, applied,
                   splitVars>>

\* get_user_rank: the second count_documents and the return.
GetUserRankRank(p) ==
    /\ cpc[p] = "get_user_rank_rank"
    /\ LET user_rank == IF store_ok THEN CountGreater(users, local[p].total_size)
                        ELSE -1
           total_users == local[p].total_users
       IN  ret' = Returned("get_user_rank",
                           <<IF user_rank # -1 THEN user_rank + 1 ELSE 0,
                             IF total_users # -1 THEN total_users ELSE 0>>,
                           "none", local[p].store_failed \/ ~store_ok)
    /\ cpc' = [cpc EXCEPT ![p] = "idle"]
    /\ local' = [local EXCEPT ![p] = NoLocal]
    /\ UNCHANGED <<users, unique_index, day, calls, log_args, store_ok, applied,
                   splitVars>>

\* The record store becomes unreachable: every operation awaited through
\* _safe_db_operation raises, is logged, and yields None.
Outage ==
    /\ store_ok
    /\ store_ok' = FALSE
    /\ UNCHANGED <<users, unique_index, day, cpc, local, calls, log_args, ret,
                   applied, splitVars>>

Recover ==
    /\ ~store_ok
    /\ store_ok' = TRUE
    /\ UNCHANGED <<users, unique_index, day, cpc, local, calls, log_args, ret,
                   applied, splitVars>>

\* A collection of n users, each with one recorded upload.
RankCollections ==
    UNION {{[k \in 1..n |-> FileStatsUpdate(DefaultData(k, 0), sizes[k], 1)] :
               sizes \in [1..n -> RankSizes]} : n \in 0..MaxUsers}

InitRank ==
    /\ InitFiles({1}, {1}, {1})
    /\ users \in RankCollections
    /\ unique_index = FALSE
    /\ day = 0
    /\ cpc = [p \in Procs |-> "idle"]
    /\ local = [p \in Procs |-> NoLocal]
    /\ calls = EmptyBag
    /\ log_args = FALSE
    /\ store_ok = TRUE
    /\ ret = NoReturn
    /\ applied = 0

\* One caller at a time: every call returns before the next one starts.
NextSolo ==
    \/ CreateUser(1)
    \/ UpdateFileStats(1)
    \/ UpdateProcessStats(1)
    \/ UpdateActivityRead(1)
    \/ UpdateActivityWrite(1)
    \/ CheckAchievementsRead(1)
    \/ CheckAchievementsWrite(1)
    \/ Tick

SpecSolo == InitStore /\ [][NextSolo]_vars

\* Callers that only create the record and record uploads, with the full
\* history of calls.
NextUploads ==
    \/ \E p \in Procs : CreateUser(p)
    \/ \E p \in Procs : UpdateFileStats(p)

SpecUploads == InitSerial /\ [][NextUploads]_vars

\* Callers that only create the record and record processing attempts, the
\* store going down and coming back.
NextProcess ==
    \/ \E p \in Procs : CreateUser(p)
    \/ \E p \in Procs : UpdateProcessStats(p)
    \/ Outage
    \/ Recover

SpecProcess == InitStore /\ [][NextProcess]_vars

\* Callers that only create the record and record activity, across midnights,
\* the store going down and coming back.
NextActivity ==
    \/ \E p \in Procs : CreateUser(p)
    \/ \E p \in Procs : UpdateActivityRead(p)
    \/ \E p \in Procs : UpdateActivityWrite(p)
    \/ Tick
    \/ Outage
    \/ Recover

SpecActivity == InitStore /\ [][NextActivity]_vars

\* Rank queries, one at a time, against a collection nobody updates.
NextRank ==
    \/ GetUserRankUser(1)
    \/ GetUserRankTotal(1)
    \/ GetUserRankRank(1)

SpecRank == InitRank /\ [][NextRank]_vars

\* Every operation of the store, one call at a time, the store going down and
\* coming back between any two store accesses.
NextFaulty ==
    \/ CreateUser(1)
    \/ UpdateFileStats(1)
    \/ UpdateProcessStats(1)
    \/ UpdateActivityRead(1)
    \/ UpdateActivityWrite(1)
    \/ CheckAchievementsRead(1)
    \/ CheckAchievementsWrite(1)
    \/ GetUserRankUser(1)
    \/ GetUserRankTotal(1)
    \/ GetUserRankRank(1)
    \/ Tick
    \/ Outage
    \/ Recover

SpecFaulty == InitStore /\ [][NextFaulty]_vars

(* ------------------ properties of the partitioner ---------------------- *)

Width  == dims[uploaded_file][1]
Height == dims[uploaded_file][2]

\* The request has passed the planning step of split_image.
Planned == uploaded_file \in DOMAIN dims /\ split_args # <<>>

Covers(c, px, py) ==
    /\ c.left <= px /\ px < c.left + c.width
    /\ c.top <= py  /\ py < c.top + c.height

\* C1: for W, H, N >= 1 the planned cells partition [0,W) x [0,H): every pixel
\* lies in exactly one cell and every cell is at least 1 x 1.
C1_ExactPartition ==
    (Planned /\ num_chunks >= 1) =>
        /\ \A px \in 0..(Width - 1), py \in 0..(Height - 1) :
              Cardinality({k \in 1..Len(split_args) :
                              Covers(split_args[k], px, py)}) = 1
        /\ \A k \in 1..Len(split_args) :
              split_args[k].width >= 1 /\ split_args[k].height >= 1

\* floor(sqrt(n)), floor(a / b) and ceil(a / b) by their defining inequalities.
FloorSqrt(n) == CHOOSE c \in 0..n : c * c <= n /\ (c + 1) * (c + 1) > n
FloorDiv(a, b) == CHOOSE q \in 0..a : q * b <= a /\ (q + 1) * b > a
CeilDiv(a, b) == CHOOSE q \in 0..a : q * b >= a /\ (q - 1) * b < a

\* C2: the plan has rows*cols <= N cells, cols = floor(sqrt(N)), rows =
\* floor(N/cols); the cell of row y, column x is the (y*cols + x + 1)-th and has
\* left = x*ceil(W/cols), top = y*ceil(H/rows), width = min(ceil(W/cols), W - left),
\* height = min(ceil(H/rows), H - top).
C2_GridFormula ==
    (Planned /\ num_chunks >= 1) =>
        LET cols == FloorSqrt(num_chunks)
            rows == FloorDiv(num_chunks, cols)
            cw   == CeilDiv(Width, cols)
            ch   == CeilDiv(Height, rows)
        IN  /\ Len(split_args) = rows * cols
            /\ rows * cols <= num_chunks
            /\ \A y \in 0..(rows - 1), x \in 0..(cols - 1) :
                  LET c == split_args[y * cols + x + 1]
                  IN  /\ c.left = x * cw
                      /\ c.top = y * ch
                      /\ c.width = Min(cw, Width - x * cw)
                      /\ c.height = Min(ch, Height - y * ch)

\* A 3 x 2 image planned for 4 chunks: column widths 2 and 1, row heights 1 and 1.
C2_Witness ==
    /\ Planned /\ num_chunks = 4 /\ Width = 3 /\ Height = 2
    /\ [k \in 1..4 |-> split_args[k].width] = <<2, 1, 2, 1>>
    /\ [k \in 1..4 |-> split_args[k].height] = <<1, 1, 1, 1>>

(* ------------------ properties of a split request ----------------------- *)

\* The Chunk rows the running request has saved.
Batch == {j \in 1..Len(chunks) : chunks[j].batch = nreq + 1}

\* C3: whatever order the crops complete in, split_image returns the artifacts
\* in row-major plan order, the positions of the batch are exactly 1..rows*cols
\* without duplicates, and the chunk at position p is the crop of the cell in
\* row (p-1) div cols, column (p-1) mod cols.
C3_RowMajorPositions ==
    (pc = "done") =>
        LET cols == FloorSqrt(num_chunks)
            rows == FloorDiv(num_chunks, cols)
            cell(p) == SplitArg(Width, Height, num_chunks,
                                (p - 1) \div cols, (p - 1) % cols)
        IN  /\ Len(chunk_files) = rows * cols
            /\ \A p \in 1..Len(chunk_files) : chunk_files[p] = cell(p).output_file
            /\ Cardinality(Batch) = rows * cols
            /\ {chunks[j].position : j \in Batch} = 1..(rows * cols)
            /\ \A j \in Batch :
                  chunks[j].chunk_file.crop =
                      <<cell(chunks[j].position).left, cell(chunks[j].position).top,
                        cell(chunks[j].position).width, cell(chunks[j].position).height>>

\* Four crops finished in reverse plan order and the request succeeded.
C3_Witness ==
    /\ pc = "done" /\ order = <<4, 3, 2, 1>>
    /\ Cardinality(Batch) = 4

Terminal == pc \in {"done", "failed"}

RowsOf(f) == {j \in 1..Len(chunks) : chunks[j].uploaded_file = f}

\* C4: after any sequence of split requests the Chunk rows of each UploadedFile
\* have the positions 1..k, each exactly once (a later split supersedes the
\* earlier batch).
C4_ContiguousPositions ==
    (pc = "idle" \/ Terminal) =>
        \A f \in DOMAIN dims :
            /\ \A j1, j2 \in RowsOf(f) :
                  j1 # j2 => chunks[j1].position # chunks[j2].position
            /\ {chunks[j].position : j \in RowsOf(f)} = 1..Cardinality(RowsOf(f))

\* C5: when an upload or a record write fails, the failed request leaves no
\* Chunk row of its batch behind.
C5_BatchIsAUnit ==
    (pc = "failed" /\ err \in {"cloudinary.Error", "DatabaseError"}) => Batch = {}

\* C6: when a request that made its working directory terminates, by success
\* or by failure, the directory is gone.
C6_FolderRemoved ==
    (Terminal /\ Planned) => uploaded_file \notin folders

\* C7: a non-positive chunk count fails with the invalid-dimensions error the
\* serializer reports (a ValidationError), with no plan and no crop dispatched.
C7_InvalidDimensions ==
    (Terminal /\ uploaded_file \in DOMAIN dims /\ num_chunks <= 0) =>
        /\ err \in {"InvalidDimensions", "ValidationError"}
        /\ split_args = <<>> /\ order = <<>>

(* ------------------ properties of the engagement store ------------------ *)

Records(coll, user_id) == {k \in 1..Len(coll) : coll[k].user_id = user_id}

\* C8: after a create_user call the store holds exactly one record of that
\* user id, and a call made when the record exists leaves it unchanged.
C8_EnsureUserIdempotent ==
    [][\A user_id \in UserIds :
          (\E p \in Procs : CreateUser(p)) =>
              /\ Cardinality(Records(users', user_id)) = 1
              /\ \A k \in Records(users, user_id) : users'[k] = users[k]]_vars

\* A whole method run without interleaving: its read and its write back to back.
Apply(coll, uniq, call) ==
    LET k == FindOne(coll, call.user_id)
    IN  CASE call.op = "create_user" ->
                InsertOne(coll, DefaultData(call.user_id, call.today), uniq)
          [] call.op = "update_file_stats" ->
                UpdateOne(coll, call.user_id,
                          FileStatsUpdate(Found(coll, call.user_id), call.a, call.b))
          [] call.op = "update_process_stats" ->
                UpdateOne(coll, call.user_id,
                          ProcessStatsUpdate(Found(coll, call.user_id),
                                             call.a, call.b, call.c))
          [] call.op = "update_activity" ->
                IF k = 0 THEN coll
                ELSE UpdateOne(coll, call.user_id,
                        ActivityUpdate(Found(coll, call.user_id), call.today,
                                       NewStreak(coll[k], call.today), call.hour))
          [] call.op = "check_and_add_achievements" ->
                IF k = 0 \/ (k # 0 /\ NewAchievements(coll[k]) = <<>>) THEN coll
                ELSE UpdateOne(coll, call.user_id,
                        AchievementsUpdate(Found(coll, call.user_id),
                            coll[k].achievements \cup Range(NewAchievements(coll[k])),
                            NewAchievements(coll[k])))

\* The collections that some sequential order of the calls in the bag produces.
RECURSIVE SeqResults(_, _, _)
SeqResults(bag, coll, uniq) ==
    IF BagToSet(bag) = {} THEN {coll}
    ELSE UNION {SeqResults(bag (-) SetToBag({c}), Apply(coll, uniq, c), uniq) :
                    c \in BagToSet(bag)}

Quiescent == \A p \in Procs : cpc[p] = "idle"

\* C9: every operation acts atomically on the record: once all calls have
\* returned, the collection is what some sequential order of the calls gives.
C9_NoLostUpdate ==
    Quiescent => users \in SeqResults(calls, <<>>, unique_index)

\* C10: an achievement stored in a record's unlocked set is never removed.
C10_AchievementsOneWay ==
    [][\A k \in 1..Len(users) :
          users[k].achievements \subseteq users'[k].achievements]_vars

(* ------------------------- streaks (update_activity) --------------------- *)

\* The step on which coroutine p's update_activity call returns after its
\* update_one.
ActivityReturns(p) == cpc[p] = "update_activity" /\ cpc'[p] = "idle"

C12_StreakAtLeastOne ==
    [][\A p \in Procs : ActivityReturns(p) =>
          \A k \in 1..Len(users) :
             k = FindOne(users, users[k].user_id) => users'[k].current_streak >= 1]_vars


(* --------------------- file extrema (update_file_stats) ------------------ *)

\* The update_file_stats calls made so far, and how many of them there are.
UploadCalls == {c \in BagToSet(calls) : c.op = "update_file_stats"}

NumUploadCalls == BagCardinality([c \in UploadCalls |-> CopiesIn(c, calls)])

\* C13: when every update_file_stats call made so far was applied to the
\* user's record (none preceded its creation), smallest_file_size is the least
\* and largest_file_size the greatest of the sizes of those calls, whatever
\* their order.
C13_Extrema ==
    \A k \in 1..Len(users) :
       (/\ k = FindOne(users, users[k].user_id)
        /\ UploadCalls # {}
        /\ users[k].files_uploaded = NumUploadCalls)
       => /\ \E c \in UploadCalls : users[k].smallest_file_size = c.a
          /\ \A c \in UploadCalls : users[k].smallest_file_size <= c.a
          /\ \E c \in UploadCalls : users[k].largest_file_size = c.a
          /\ \A c \in UploadCalls : users[k].largest_file_size >= c.a

\* Sizes 50, 10 and 200 were recorded once each: smallest 10, largest 200.
C13_Witness ==
    /\ Len(users) >= 1
    /\ users[1].files_uploaded = 3
    /\ {c.a : c \in UploadCalls} = {10, 50, 200}
    /\ users[1].smallest_file_size = 10
    /\ users[1].largest_file_size = 200

(* ---------------------------- rank (get_user_rank) ---------------------- *)

\* The step on which coroutine p's get_user_rank call ends, by a return or by
\* an exception.
RankEnds(p) ==
    cpc[p] \in {"get_user_rank_total", "get_user_rank_rank"} /\ cpc'[p] = "idle"

\* The users with a record, and the total_size of a user's record.
UsersOf(coll) == {coll[k].user_id : k \in 1..Len(coll)}
TotalSizeOf(coll, user_id) == Found(coll, user_id).total_size

\* C14: for a user whose record exists and a store that answers, get_user_rank
\* returns (rank, total_users): total_users is the number of records and rank
\* is 1 + the number of users with a strictly greater total_size, so users
\* with equal total_size get the same rank.
C14_Rank ==
    [][\A p \in Procs :
          (/\ RankEnds(p)
           /\ ~ret'.store_failed
           /\ local[p].user_id \in UsersOf(users))
          => /\ ret'.exc = "none"
             /\ ret'.value =
                  <<1 + Cardinality({u \in UsersOf(users) :
                           TotalSizeOf(users, u) > TotalSizeOf(users, local[p].user_id)}),
                    Len(users)>>]_vars

\* Total sizes 500, 300, 300: a user with 300 was ranked 2 of 3.
C14_Witness ==
    /\ Len(users) = 3
    /\ users[1].total_size = 500 /\ users[2].total_size = 300
    /\ users[3].total_size = 300
    /\ ret = Returned("get_user_rank", <<2, 3>>, "none", FALSE)

\* C15: when no record has the user id and the store answers, get_user_rank
\* returns (0, total_users) and raises nothing.
C15_RankOfMissingUser ==
    [][\A p \in Procs :
          (/\ RankEnds(p)
           /\ ~ret'.store_failed
           /\ local[p].user_id \notin UsersOf(users))
          => /\ ret'.exc = "none"
             /\ ret'.value = <<0, Len(users)>>]_vars

\* The step on which a call of coroutine p ends.
CallEnds(p) == cpc'[p] = "idle" /\ (cpc[p] # "idle" \/ calls' # calls)

\* C16: a call for an existing user during which a store access failed lets no
\* exception escape, and hands back nothing (None or an empty list) unless it
\* is get_user_rank, whose result is a pair.
C16_FailuresSwallowed ==
    [][\A p \in Procs :
          (/\ CallEnds(p)
           /\ ret'.store_failed
           /\ RankEnds(p) => local[p].user_id \in UsersOf(users))
          => /\ ret'.exc = "none"
             /\ ret'.op # "get_user_rank" => ret'.value = <<>>]_vars

(* ------------------ achievements (check_and_add_achievements) ------------ *)

\* C17: when one call at a time runs and a check_and_add_achievements call
\* starts right after another one returned, the second call returns an empty
\* list of newly earned achievements and leaves the collection unchanged.
C17_SecondCallEmpty ==
    [][\A p \in Procs :
          (ret.op = "check_and_add_achievements" /\ CheckAchievementsRead(p))
          => /\ cpc'[p] = "idle"
             /\ ret' = Returned("check_and_add_achievements", <<>>, "none", FALSE)
             /\ users' = users]_vars

\* A second call returned the empty list after a call had stored achievements.
C17_Witness ==
    /\ CopiesIn(Call("check_and_add_achievements", 1, 0, 0, 0, 0, FALSE), calls) >= 2
    /\ ret = Returned("check_and_add_achievements", <<>>, "none", FALSE)
    /\ Len(users) >= 1
    /\ users[1].achievements # {}
    /\ cpc[1] = "idle"

(* --------------------------- a crop that fails --------------------------- *)

\* C18: once the crop of one cell has failed, split_image returns no list, no
\* artifact is uploaded and no Chunk row is written for the request, whether
\* or not the crops of other cells completed: the request can only end in
\* failure with the crop's error.
C18_CropFailureFailsBatch ==
    (\E k \in 1..Len(results) : results[k] = "error") =>
        /\ chunk_files = <<>>
        /\ Batch = {}
        /\ pc \in {"pool", "failed"}
        /\ pc = "failed" => err = "ffmpeg.Error"

\* A request failed with one crop in error and another crop completed.
C18_Witness ==
    /\ pc = "failed" /\ err = "ffmpeg.Error"
    /\ \E k \in 1..Len(results) : results[k] = "error"
    /\ \E k \in 1..Len(results) : results[k] = "ok"
    /\ Batch = {}

(* ----------------- processing counters (update_process_stats) ------------ *)

\* C19: in every state, the record of a user has successful_processes <=
\* total_attempts, and total_attempts is the number of update_process_stats
\* calls whose update the store applied, whatever the outcomes, the
\* interleaving and the store failures.
C19_AttemptsCounted ==
    \A k \in 1..Len(users) :
       k = FindOne(users, users[k].user_id) =>
          /\ users[k].successful_processes <= users[k].total_attempts
          /\ users[k].total_attempts = applied

\* Three calls were made and two were applied, one of them successful.
C19_Witness ==
    /\ CopiesIn(Call("update_process_stats", 1, 0, 0, 0, 0, FALSE), calls) = 3
    /\ Len(users) >= 1
    /\ users[1].total_attempts = 2
    /\ users[1].successful_processes = 1
    /\ applied = 2

(* --------------------------- longest streak ------------------------------ *)

\* C20: in every state the record has longest_streak >= current_streak, and no
\* step lowers longest_streak, whatever the interleaving of update_activity
\* calls and the midnights between their reads and writes.
C20_LongestStreak ==
    [][\A k \in 1..Len(users) :
          /\ users[k].longest_streak >= users[k].current_streak
          /\ users'[k].longest_streak >= users'[k].current_streak
          /\ users'[k].longest_streak >= users[k].longest_streak]_vars

\* A call that read on day 1 wrote after a call that read on day 2: the
\* current streak fell back to 1 and the longest stayed 2.
C20_Witness ==
    /\ Len(users) >= 1
    /\ users[1].longest_streak = 2
    /\ users[1].current_streak = 1
    /\ users[1].last_active_date = 1
    /\ day = 2

====
